---- MODULE Spec2Model ----
(***************************************************************************)
(* The S.K.8 game of skatehubba-app: the callable Cloud Functions of       *)
(* functions/src/index.ts acting on one document of the `games`            *)
(* collection.  A handler is a pure decision (the body of its              *)
(* db.runTransaction callback) applied to the stored document; the         *)
(* transactional applier is modelled separately (TxBegin / TxCommit).      *)
(***************************************************************************)
EXTENDS Integers, Sequences, FiniteSets, TLC

VARIABLES
    game,      \* the document games/<TheGame>: <<>> while absent, <<doc>> once created
    version,   \* number of committed writes to that document (Firestore update version)
    last,      \* the request of the most recent committed invocation
    txs,       \* the transactions in flight, one slot per concurrent invocation
    stored,    \* the codes of the documents of the `games` collection, in creation order
    creates,   \* the createGame invocations in flight: position in generateGameCode
    buckets,   \* the documents of the `rateLimits` collection, with their write version
    limits,    \* the invocations in flight through enforceRateLimit
    clock,     \* the server time, in window units
    admits     \* per bucket, the requests admitted since its window was last opened

rate == <<buckets, limits, clock, admits>>
aux == <<stored, creates, buckets, limits, clock, admits>>
vars == <<game, version, last, txs, stored, creates, buckets, limits, clock, admits>>

-----------------------------------------------------------------------------
(* Bounds of the model *)

MaxHistory == 3        \* history length explored with every kind of caller and input
MaxMatchHistory == 6   \* history length explored in a match of two well-formed clients
MaxRallyHistory == 7   \* rounds explored in a match where every set is approved
MaxStoredHistory == 2  \* history length explored from an arbitrary stored record
MaxTxHistory == 1      \* history length explored with concurrent transactions
MaxGames == 3          \* createGame invocations explored (stored or in flight)
MaxClock == 2          \* server time explored
RateMax == 2           \* RateLimitConfig.max of the modelled operation, scaled down
WindowMs == 1          \* RateLimitConfig.windowMs of the modelled operation, scaled down

-----------------------------------------------------------------------------
(* Values *)

\* A nullable value is <<>> (null) or <<v>>.
Null == <<>>
Some(v) == <<v>>
IsNull(x) == x = <<>>
Val(x) == x[1]

NoAuth == "(no auth)"
Uids == {"alice", "bob", "carol"}
Callers == Uids \cup {NoAuth}

TheGame == "g1"
GameIds == {"g1", "g2"}

PlayerKeys == {"A", "B"}
Phases == {"SET_RECORD", "SET_JUDGE", "RESP_RECORD", "RESP_JUDGE"}
Results == {"declined_set", "approved_set", "landed", "failed"}

lettersSequence == <<"S", "K", "8">>

\* String concatenation over the penalty prefixes that occur.
Concat(a, b) ==
    CASE a = ""   -> b
      [] b = ""   -> a
      [] a = "S"  /\ b = "K" -> "SK"
      [] a = "SK" /\ b = "8" -> "SK8"
      [] OTHER    -> "?"

LettersValues == {"", "S", "SK", "SK8"}

\* A storage path: its '/'-separated segments (the last one without its
\* extension), the text after the last '.', and whether the raw string
\* carries surrounding whitespace.
Path(segs, ext, ws) == [segs |-> segs, ext |-> ext, ws |-> ws]

SetClipA  == Path(<<"games", "g1", "set", "a">>, "mp4", FALSE)
SetClipB  == Path(<<"games", "g1", "set", "b">>, "MOV", TRUE)
RespClipA == Path(<<"games", "g1", "response", "a">>, "webm", FALSE)
OtherGameClip == Path(<<"games", "g2", "set", "a">>, "mp4", FALSE)
TraversalClip == Path(<<"games", "g1", "set", "..", "x">>, "mp4", FALSE)
ShortClip == Path(<<"games", "g1", "a">>, "mp4", FALSE)
BadExtClip == Path(<<"games", "g1", "set", "a">>, "exe", FALSE)
DottedNameClip == Path(<<"games", "g1", "response", "a..b">>, "mp4", FALSE)

ClipInputs == {SetClipA, RespClipA, OtherGameClip, TraversalClip, ShortClip, BadExtClip,
               DottedNameClip}

\* String.includes('..') on the segments the inputs are made of.
includesDotDot(segment) == segment \in {"..", "a..b"}

OK == "ok"


\* The codes randomCode can draw, and the codes a caller can type.
CodeDraws == {"ABC234"}
CodeSpace == {"ABC234", "XYZ789"}
JoinCodes == {"ABC234", "abc234", "XYZ789"}

toUpperCase(code) == IF code = "abc234" THEN "ABC234" ELSE code

toLowerCase(ext) ==
    CASE ext = "MOV"  -> "mov"
      [] ext = "MP4"  -> "mp4"
      [] ext = "WEBM" -> "webm"
      [] OTHER        -> ext

-----------------------------------------------------------------------------
(* schema.ts: the game document *)

Player(uid) == [uid |-> uid, letters |-> ""]

HistoryEntry(by, setPath, respPath, result) ==
    [by |-> by, setPath |-> setPath, respPath |-> respPath, result |-> result]

Current(by, setVideoPath, responseVideoPath) ==
    [by |-> by, setVideoPath |-> setVideoPath, responseVideoPath |-> responseVideoPath]

-----------------------------------------------------------------------------
(* index.ts: helpers *)

\* The outcome of a transaction callback: the error it throws (OK when it
\* returns), whether it called tx.update before ending, and the document
\* that update describes.
Reject(err) == [err |-> err, wrote |-> FALSE, doc |-> Null]
Accept(data) == [err |-> OK, wrote |-> TRUE, doc |-> data]

ErrUnauthenticated == "Authentication required."
ErrRateLimited == "Too many requests. Please slow down."
ErrNotFound == "Game not found."
ErrNotParticipant == "You are not a participant in this game."
ErrWaiting == "Waiting for an opponent to join."
ErrSetPhase == "You cannot submit a set clip right now."
ErrSetSubmitted == "Set clip already submitted."
ErrJudgeSetRole == "Only the opponent can judge the set."
ErrJudgeSetPhase == "Not awaiting set approval."
ErrNoSetClip == "No set clip to judge."
ErrRespRole == "Only the responder can submit a clip."
ErrRespPhase == "Not awaiting a response clip."
ErrRespSubmitted == "Response already submitted."
ErrJudgeRespRole == "Only the setter can judge the response."
ErrJudgeRespPhase == "Not awaiting response judgement."
ErrMissingClips == "Missing clips to judge."
ErrNoApproval == "Set approval record missing."
ErrSelfFailSet == "Self fail is only available during your set."
ErrSelfFailRespRole == "Only the responder can self-fail."
ErrSelfFailRespPhase == "Self fail is only available while recording a response."
ErrCreated == "You already created this game."
ErrFull == "Game is already full."
ErrPathScope == "Storage path must be scoped to the game."
ErrPathSegments == "Storage path contains invalid segments."
ErrPathIncomplete == "Storage path is incomplete."
ErrPathMismatch == "Storage path mismatch."
ErrPathSetFolder == "Set clips must be saved under the set folder."
ErrPathRespFolder == "Response clips must be saved under the response folder."
ErrPathType == "Unsupported video type."

NoKey == "-"

getPlayerKeyDefaultB(data, uid) ==
    IF data.players.A.uid = uid THEN "A" ELSE "B"
getPlayerKey(data, uid) ==
    IF data.players.A.uid = uid THEN "A"
    ELSE IF ~IsNull(data.players.B) /\ Val(data.players.B).uid = uid THEN "B"
    ELSE NoKey

getOpponentSame(key) == key
getOpponent(key) == IF key = "A" THEN "B" ELSE "A"

trim(path) == [path EXCEPT !.ws = FALSE]

validateStoragePathAnyFolder(gameId, path, kind) ==
    LET segments == path.segs
        extension == toLowerCase(path.ext)
    IN  IF ~(Len(segments) >= 3 /\ segments[1] = "games" /\ segments[2] = gameId)
            THEN ErrPathScope
        ELSE IF \E i \in 1..Len(segments) : includesDotDot(segments[i])
            THEN ErrPathSegments
        ELSE IF Len(segments) < 4
            THEN ErrPathIncomplete
        ELSE IF extension \notin {"mp4", "mov", "webm"}
            THEN ErrPathType
        ELSE OK
\* validateStoragePath: OK, or the message of the error it throws.
validateStoragePath(gameId, path, kind) ==
    LET segments == path.segs
        extension == toLowerCase(path.ext)
    IN  IF ~(Len(segments) >= 3 /\ segments[1] = "games" /\ segments[2] = gameId)
            THEN ErrPathScope
        ELSE IF \E i \in 1..Len(segments) : includesDotDot(segments[i])
            THEN ErrPathSegments
        ELSE IF Len(segments) < 4
            THEN ErrPathIncomplete
        ELSE IF segments[1] # "games" \/ segments[2] # gameId
            THEN ErrPathMismatch
        ELSE IF kind = "set" /\ segments[3] # "set"
            THEN ErrPathSetFolder
        ELSE IF kind = "response" /\ segments[3] # "response"
            THEN ErrPathRespFolder
        ELSE IF extension \notin {"mp4", "mov", "webm"}
            THEN ErrPathType
        ELSE OK

nextLettersOffByOne(current) ==
    IF current = ""
        THEN [value |-> lettersSequence[2], completed |-> FALSE]
    ELSE IF current = lettersSequence[1]
        THEN [value |-> Concat(lettersSequence[1], lettersSequence[2]), completed |-> FALSE]
    ELSE IF current = Concat(lettersSequence[1], lettersSequence[2])
        THEN [value |-> Concat(Concat(lettersSequence[1], lettersSequence[2]), lettersSequence[3]),
              completed |-> TRUE]
    ELSE [value |-> current, completed |-> TRUE]
nextLettersOpenEnded(current) ==
    IF current = ""
        THEN [value |-> lettersSequence[1], completed |-> FALSE]
    ELSE IF current = lettersSequence[1]
        THEN [value |-> Concat(lettersSequence[1], lettersSequence[2]), completed |-> FALSE]
    ELSE IF current = Concat(lettersSequence[1], lettersSequence[2])
        THEN [value |-> Concat(Concat(lettersSequence[1], lettersSequence[2]), lettersSequence[3]),
              completed |-> TRUE]
    ELSE [value |-> current, completed |-> FALSE]
nextLetters(current) ==
    IF current = ""
        THEN [value |-> lettersSequence[1], completed |-> FALSE]
    ELSE IF current = lettersSequence[1]
        THEN [value |-> Concat(lettersSequence[1], lettersSequence[2]), completed |-> FALSE]
    ELSE IF current = Concat(lettersSequence[1], lettersSequence[2])
        THEN [value |-> Concat(Concat(lettersSequence[1], lettersSequence[2]), lettersSequence[3]),
              completed |-> TRUE]
    ELSE [value |-> current, completed |-> TRUE]

\* data.players[key]?.letters ?? ''
lettersOf(data, key) ==
    IF key = "A" THEN data.players.A.letters
    ELSE IF IsNull(data.players.B) THEN ""
    ELSE Val(data.players.B).letters

\* The update field `players.<key>.letters`.
setLettersOpponent(data, key, value) ==
    IF key = "B" THEN [data EXCEPT !.players.A.letters = value]
    ELSE [data EXCEPT !.players.B = Some([uid |-> IF IsNull(@) THEN "" ELSE Val(@).uid,
                                          letters |-> value])]
setLetters(data, key, value) ==
    IF key = "A" THEN [data EXCEPT !.players.A.letters = value]
    ELSE [data EXCEPT !.players.B = Some([uid |-> IF IsNull(@) THEN "" ELSE Val(@).uid,
                                          letters |-> value])]

-----------------------------------------------------------------------------
(* schema.ts: gameSchema.safeParse *)

ErrInvalid == "Game data is invalid."
ErrNoCode == "Unable to generate a unique game code."

\* The HttpsError code each message is thrown with.
codeOf(err) ==
    CASE err = OK -> OK
      [] err = ErrUnauthenticated -> "unauthenticated"
      [] err = ErrRateLimited -> "resource-exhausted"
      [] err = ErrNotFound -> "not-found"
      [] err \in {ErrInvalid, ErrNoCode} -> "internal"
      [] err = ErrFull -> "already-exists"
      [] err \in {ErrNotParticipant, ErrJudgeSetRole, ErrRespRole, ErrJudgeRespRole,
                  ErrSelfFailRespRole} -> "permission-denied"
      [] err \in {ErrPathScope, ErrPathSegments, ErrPathIncomplete, ErrPathMismatch,
                  ErrPathSetFolder, ErrPathRespFolder, ErrPathType} -> "invalid-argument"
      [] OTHER -> "failed-precondition"

playerSchema(p) == p.uid # "" /\ p.letters \in LettersValues

gameSchema(data) ==
    /\ data.turn \in PlayerKeys
    /\ data.phase \in Phases
    /\ (IsNull(data.winner) \/ Val(data.winner) \in PlayerKeys)
    /\ playerSchema(data.players.A)
    /\ (IsNull(data.players.B) \/ playerSchema(Val(data.players.B)))
    /\ data.current.by \in PlayerKeys
    /\ \A i \in 1..Len(data.history) :
          data.history[i].by \in PlayerKeys /\ data.history[i].result \in Results

\* getGameOrThrow: OK, or the message of the error it throws, for the
\* snapshot tx.get returned (Null when the document does not exist).
getGameOrThrow(snap) ==
    IF IsNull(snap) THEN ErrNotFound
    ELSE IF ~gameSchema(Val(snap)) THEN ErrInvalid
    ELSE OK

-----------------------------------------------------------------------------
(* index.ts: the transaction callbacks.  Each takes the snapshot `snap` of *)
(* the document it read and yields the error thrown or the document that   *)
(* tx.update leaves.                                                       *)

\* history[history.length - 1] = entry
rewriteLastAppended(history, entry) == Append(history, entry)
rewriteFirst(history, entry) == [history EXCEPT ![1] = entry]
rewriteLast(history, entry) == [history EXCEPT ![Len(history)] = entry]

\* The `current` that submitRespClip writes.
respClipCurrentByCaller(data, setterKey, storagePath) ==
    Current(getOpponent(setterKey), data.current.setVideoPath, Some(storagePath))
respClipCurrentNoSet(data, setterKey, storagePath) ==
    Current(setterKey, Null, Some(storagePath))
respClipCurrent(data, setterKey, storagePath) ==
    Current(setterKey, data.current.setVideoPath, Some(storagePath))

createGameDataTurnB(uid, code) ==
    [code |-> code,
     turn |-> "B",
     phase |-> "SET_RECORD",
     winner |-> Null,
     players |-> [A |-> Player(uid), B |-> Null],
     current |-> Current("B", Null, Null),
     history |-> <<>>]
createGameData(uid, code) ==
    [code |-> code,
     turn |-> "A",
     phase |-> "SET_RECORD",
     winner |-> Null,
     players |-> [A |-> Player(uid), B |-> Null],
     current |-> Current("A", Null, Null),
     history |-> <<>>]

joinGameTxWriteFirst(snap, uid) ==
    IF IsNull(snap) THEN Reject(ErrNotFound)
    ELSE IF ~gameSchema(Val(snap)) THEN Reject(ErrInvalid)
    ELSE LET data == Val(snap)
             update == Some([data EXCEPT !.players.B = Some(Player(uid))])
         IN
        IF data.players.A.uid = uid THEN Reject(ErrCreated)
        ELSE IF ~IsNull(data.players.B) THEN [err |-> ErrFull, wrote |-> TRUE, doc |-> update]
        ELSE Accept(update)
joinGameTxOverwrite(snap, uid) ==
    IF IsNull(snap) THEN Reject(ErrNotFound)
    ELSE IF ~gameSchema(Val(snap)) THEN Reject(ErrInvalid)
    ELSE LET data == Val(snap) IN
        IF data.players.A.uid = uid THEN Reject(ErrCreated)
        ELSE Accept(Some([data EXCEPT !.players.B = Some(Player(uid))]))
joinGameTx(snap, uid) ==
    IF IsNull(snap) THEN Reject(ErrNotFound)
    ELSE IF ~gameSchema(Val(snap)) THEN Reject(ErrInvalid)
    ELSE LET data == Val(snap) IN
        IF data.players.A.uid = uid THEN Reject(ErrCreated)
        ELSE IF ~IsNull(data.players.B) THEN Reject(ErrFull)
        ELSE Accept(Some([data EXCEPT !.players.B = Some(Player(uid))]))

submitSetClipTxNoWait(snap, gameId, path, uid) ==
    IF getGameOrThrow(snap) # OK THEN Reject(getGameOrThrow(snap))
    ELSE LET data == Val(snap)
             playerKey == getPlayerKey(data, uid)
         IN
        IF playerKey = NoKey THEN Reject(ErrNotParticipant)
        ELSE IF data.phase # "SET_RECORD" \/ data.turn # playerKey
            THEN Reject(ErrSetPhase)
        ELSE IF ~IsNull(data.current.setVideoPath) THEN Reject(ErrSetSubmitted)
        ELSE IF validateStoragePath(gameId, path, "set") # OK
            THEN Reject(validateStoragePath(gameId, path, "set"))
        ELSE Accept(Some([data EXCEPT
                !.current = Current(playerKey, Some(trim(path)), Null),
                !.phase = "SET_JUDGE"]))
submitSetClipTx(snap, gameId, path, uid) ==
    IF getGameOrThrow(snap) # OK THEN Reject(getGameOrThrow(snap))
    ELSE LET data == Val(snap)
             playerKey == getPlayerKey(data, uid)
         IN
        IF playerKey = NoKey THEN Reject(ErrNotParticipant)
        ELSE IF IsNull(data.players.B) THEN Reject(ErrWaiting)
        ELSE IF data.phase # "SET_RECORD" \/ data.turn # playerKey
            THEN Reject(ErrSetPhase)
        ELSE IF ~IsNull(data.current.setVideoPath) THEN Reject(ErrSetSubmitted)
        ELSE IF validateStoragePath(gameId, path, "set") # OK
            THEN Reject(validateStoragePath(gameId, path, "set"))
        ELSE Accept(Some([data EXCEPT
                !.current = Current(playerKey, Some(trim(path)), Null),
                !.phase = "SET_JUDGE"]))

declinedTurnOpponent(setterKey) == getOpponent(setterKey)
declinedTurn(setterKey) == setterKey
\* current: { by: setterKey } after a declined set.
declinedCurrentKept(data, setterKey) == Current(setterKey, data.current.setVideoPath, Null)
declinedCurrent(data, setterKey) == Current(setterKey, Null, Null)
\* The history entry of an approved set.
approvedEntryNoPath(data, setterKey) == HistoryEntry(setterKey, Null, Null, "approved_set")
approvedEntry(data, setterKey) ==
    HistoryEntry(setterKey, data.current.setVideoPath, Null, "approved_set")
approvedCurrentCleared(data, setterKey) == Current(setterKey, Null, Null)
approvedCurrent(data, setterKey) == Current(setterKey, data.current.setVideoPath, Null)

judgeSetTx(snap, approve, uid) ==
    IF getGameOrThrow(snap) # OK THEN Reject(getGameOrThrow(snap))
    ELSE LET data == Val(snap)
             setterKey == data.current.by
             callerKey == getPlayerKey(data, uid)
             judgeKey == getOpponent(setterKey)
         IN
        IF callerKey = NoKey THEN Reject(ErrNotParticipant)
        ELSE IF callerKey # judgeKey THEN Reject(ErrJudgeSetRole)
        ELSE IF data.phase # "SET_JUDGE" THEN Reject(ErrJudgeSetPhase)
        ELSE IF IsNull(data.current.setVideoPath) THEN Reject(ErrNoSetClip)
        ELSE IF ~approve THEN
            Accept(Some([data EXCEPT
                !.history = Append(@, HistoryEntry(setterKey, data.current.setVideoPath,
                                                   Null, "declined_set")),
                !.phase = "SET_RECORD",
                !.turn = declinedTurn(setterKey),
                !.current = declinedCurrent(data, setterKey)]))
        ELSE
            Accept(Some([data EXCEPT
                !.history = Append(@, approvedEntry(data, setterKey)),
                !.phase = "RESP_RECORD",
                !.current = approvedCurrent(data, setterKey),
                !.turn = setterKey]))

submitRespClipTx(snap, gameId, path, uid) ==
    IF getGameOrThrow(snap) # OK THEN Reject(getGameOrThrow(snap))
    ELSE LET data == Val(snap)
             setterKey == data.current.by
             responderKey == getOpponent(setterKey)
             callerKey == getPlayerKey(data, uid)
         IN
        IF callerKey = NoKey THEN Reject(ErrNotParticipant)
        ELSE IF callerKey # responderKey THEN Reject(ErrRespRole)
        ELSE IF data.phase # "RESP_RECORD" THEN Reject(ErrRespPhase)
        ELSE IF ~IsNull(data.current.responseVideoPath) THEN Reject(ErrRespSubmitted)
        ELSE IF validateStoragePath(gameId, path, "response") # OK
            THEN Reject(validateStoragePath(gameId, path, "response"))
        ELSE Accept(Some([data EXCEPT
                !.current = respClipCurrent(data, setterKey, trim(path)),
                !.phase = "RESP_JUDGE"]))

\* The winner a failed response leaves: update.winner = setterKey if completed.
winnerAfterResponder(data, setterKey, completed) ==
    IF completed THEN Some(getOpponent(setterKey)) ELSE data.winner
winnerAfter(data, setterKey, completed) ==
    IF completed THEN Some(setterKey) ELSE data.winner

\* !history.length || history[history.length - 1].result !== 'approved_set'
approvalMissingIfEmpty(history) == Len(history) = 0
approvalMissing(history) ==
    Len(history) = 0 \/ history[Len(history)].result # "approved_set"

\* !data.current.setVideoPath || !data.current.responseVideoPath
missingClipsBoth(current) ==
    IsNull(current.setVideoPath) /\ IsNull(current.responseVideoPath)
missingClips(current) ==
    IsNull(current.setVideoPath) \/ IsNull(current.responseVideoPath)

\* result: input.approve ? 'landed' : 'failed'
judgedResultInverted(approve) == IF approve THEN "failed" ELSE "landed"
judgedResult(approve) == IF approve THEN "landed" ELSE "failed"

judgeRespTx(snap, approve, uid) ==
    IF getGameOrThrow(snap) # OK THEN Reject(getGameOrThrow(snap))
    ELSE LET data == Val(snap)
             setterKey == data.current.by
             callerKey == getPlayerKey(data, uid)
             responderKey == getOpponent(setterKey)
             history == data.history
             n == Len(history)
         IN
        IF callerKey = NoKey THEN Reject(ErrNotParticipant)
        ELSE IF callerKey # setterKey THEN Reject(ErrJudgeRespRole)
        ELSE IF data.phase # "RESP_JUDGE" THEN Reject(ErrJudgeRespPhase)
        ELSE IF missingClips(data.current) THEN Reject(ErrMissingClips)
        ELSE IF approvalMissing(history) THEN Reject(ErrNoApproval)
        ELSE LET update == [data EXCEPT
                    !.history = rewriteLast(history,
                                    HistoryEntry(history[n].by, data.current.setVideoPath,
                                                 data.current.responseVideoPath,
                                                 judgedResult(approve))),
                    !.phase = "SET_RECORD",
                    !.turn = responderKey,
                    !.current = Current(responderKey, Null, Null)]
                 next == nextLetters(lettersOf(data, responderKey))
             IN IF approve THEN Accept(Some(update))
                ELSE Accept(Some([setLetters(update, responderKey, next.value) EXCEPT
                        !.winner = winnerAfter(data, setterKey, next.completed)]))

\* The history entry of a self-failed set.
failedSetEntryDeclined(playerKey) == HistoryEntry(playerKey, Null, Null, "declined_set")
failedSetEntry(playerKey) == HistoryEntry(playerKey, Null, Null, "failed")

selfFailSetTxAnyTurn(snap, uid) ==
    IF getGameOrThrow(snap) # OK THEN Reject(getGameOrThrow(snap))
    ELSE LET data == Val(snap)
             playerKey == getPlayerKey(data, uid)
             opponent == getOpponent(playerKey)
         IN
        IF playerKey = NoKey THEN Reject(ErrNotParticipant)
        ELSE IF data.phase # "SET_RECORD" THEN Reject(ErrSelfFailSet)
        ELSE Accept(Some([data EXCEPT
                !.history = Append(@, HistoryEntry(playerKey, Null, Null, "failed")),
                !.phase = "SET_RECORD",
                !.turn = opponent,
                !.current = Current(opponent, Null, Null)]))
selfFailSetTxPenalized(snap, uid) ==
    IF getGameOrThrow(snap) # OK THEN Reject(getGameOrThrow(snap))
    ELSE LET data == Val(snap)
             playerKey == getPlayerKey(data, uid)
             opponent == getOpponent(playerKey)
         IN
        IF playerKey = NoKey THEN Reject(ErrNotParticipant)
        ELSE IF data.phase # "SET_RECORD" \/ data.turn # playerKey
            THEN Reject(ErrSelfFailSet)
        ELSE Accept(Some([setLetters(data, playerKey,
                                     nextLetters(lettersOf(data, playerKey)).value) EXCEPT
                !.history = Append(@, HistoryEntry(playerKey, Null, Null, "failed")),
                !.phase = "SET_RECORD",
                !.turn = opponent,
                !.current = Current(opponent, Null, Null)]))
selfFailSetTx(snap, uid) ==
    IF getGameOrThrow(snap) # OK THEN Reject(getGameOrThrow(snap))
    ELSE LET data == Val(snap)
             playerKey == getPlayerKey(data, uid)
             opponent == getOpponent(playerKey)
         IN
        IF playerKey = NoKey THEN Reject(ErrNotParticipant)
        ELSE IF data.phase # "SET_RECORD" \/ data.turn # playerKey
            THEN Reject(ErrSelfFailSet)
        ELSE Accept(Some([data EXCEPT
                !.history = Append(@, failedSetEntry(playerKey)),
                !.phase = "SET_RECORD",
                !.turn = opponent,
                !.current = Current(opponent, Null, Null)]))

selfFailRespTx(snap, uid) ==
    IF getGameOrThrow(snap) # OK THEN Reject(getGameOrThrow(snap))
    ELSE LET data == Val(snap)
             setterKey == data.current.by
             responderKey == getOpponent(setterKey)
             callerKey == getPlayerKey(data, uid)
             history == data.history
             n == Len(history)
         IN
        IF callerKey = NoKey THEN Reject(ErrNotParticipant)
        ELSE IF callerKey # responderKey THEN Reject(ErrSelfFailRespRole)
        ELSE IF data.phase # "RESP_RECORD" THEN Reject(ErrSelfFailRespPhase)
        ELSE IF approvalMissing(history) THEN Reject(ErrNoApproval)
        ELSE LET update == [data EXCEPT
                    !.history = rewriteLast(history,
                                    HistoryEntry(setterKey, data.current.setVideoPath,
                                                 Null, "failed")),
                    !.phase = "SET_RECORD",
                    !.turn = responderKey,
                    !.current = Current(responderKey, Null, Null)]
                 next == nextLetters(lettersOf(data, responderKey))
             IN Accept(Some([setLetters(update, responderKey, next.value) EXCEPT
                        !.winner = winnerAfter(data, setterKey, next.completed)]))

-----------------------------------------------------------------------------
(* index.ts: the handlers *)

Ops == {"createGame", "joinGame", "submitSetClip", "judgeSet", "submitRespClip",
        "judgeResp", "selfFailSet", "selfFailResp"}

GameplayOps == Ops \ {"createGame", "joinGame"}

Request(op, uid, gameId, code, path, approve) ==
    [op |-> op, uid |-> uid, gameId |-> gameId, code |-> code, path |-> path,
     approve |-> approve]

NoRequest == Request("none", NoAuth, "", "", Null, FALSE)

\* The document a transaction reads from the store: joinGame queries by
\* code, every gameplay handler gets games/<gameId>.
txGet(req, store) ==
    IF req.op = "joinGame"
        THEN IF ~IsNull(store) /\ Val(store).code = toUpperCase(req.code) THEN store ELSE Null
        ELSE IF req.gameId = TheGame THEN store ELSE Null

\* The callback a handler passes to db.runTransaction.
txCallback(req, snap) ==
    CASE req.op = "joinGame"       -> joinGameTx(snap, req.uid)
      [] req.op = "submitSetClip"  -> submitSetClipTx(snap, req.gameId, Val(req.path), req.uid)
      [] req.op = "judgeSet"       -> judgeSetTx(snap, req.approve, req.uid)
      [] req.op = "submitRespClip" -> submitRespClipTx(snap, req.gameId, Val(req.path), req.uid)
      [] req.op = "judgeResp"      -> judgeRespTx(snap, req.approve, req.uid)
      [] req.op = "selfFailSet"    -> selfFailSetTx(snap, req.uid)
      [] req.op = "selfFailResp"   -> selfFailRespTx(snap, req.uid)

\* assertAuth, then enforceFunctionRateLimit (`limited`: the caller's
\* bucket is exhausted), then the work `run`.
guardedLimitFirst(req, limited, run) ==
    IF limited THEN Reject(ErrRateLimited)
    ELSE IF req.uid = NoAuth THEN Reject(ErrUnauthenticated)
    ELSE run
guarded(req, limited, run) ==
    IF req.uid = NoAuth THEN Reject(ErrUnauthenticated)
    ELSE IF limited THEN Reject(ErrRateLimited)
    ELSE run

createGameImpl(req, limited, store) ==
    guarded(req, limited, Accept(Some(createGameData(req.uid, req.code))))

\* A handler that runs its callback on the current document in one step.
handlerImpl(req, limited, store) ==
    guarded(req, limited, txCallback(req, txGet(req, store)))

\* db.runTransaction: the update is committed only if the callback returned.
committed(out, store) == IF out.err = OK /\ out.wrote THEN out.doc ELSE store

HistoryLen(store) == IF IsNull(store) THEN 0 ELSE Len(Val(store).history)

\* One invocation run to its end: the store after it, and the request
\* remembered when it committed.  A rejected invocation changes nothing.
Apply(req, out) ==
    /\ game' = committed(out, game)
    /\ version' = IF out.err = OK /\ out.wrote THEN version + 1 ELSE version
    /\ last' = IF out.err = OK /\ out.wrote THEN req ELSE last

Reply(req, out) ==
    /\ Apply(req, out)
    /\ UNCHANGED txs
    /\ UNCHANGED aux

CreateGame(uid, limited, code) ==
    /\ IsNull(game)
    /\ LET req == Request("createGame", uid, "", code, Null, FALSE)
       IN Reply(req, createGameImpl(req, limited, game))

JoinGame(uid, limited, code) ==
    LET req == Request("joinGame", uid, "", code, Null, FALSE)
    IN Reply(req, handlerImpl(req, limited, game))

SubmitSetClip(uid, limited, gameId, path) ==
    LET req == Request("submitSetClip", uid, gameId, "", Some(path), FALSE)
    IN Reply(req, handlerImpl(req, limited, game))

JudgeSet(uid, limited, gameId, approve) ==
    LET req == Request("judgeSet", uid, gameId, "", Null, approve)
    IN Reply(req, handlerImpl(req, limited, game))

SubmitRespClip(uid, limited, gameId, path) ==
    LET req == Request("submitRespClip", uid, gameId, "", Some(path), FALSE)
    IN Reply(req, handlerImpl(req, limited, game))

JudgeResp(uid, limited, gameId, approve) ==
    LET req == Request("judgeResp", uid, gameId, "", Null, approve)
    IN Reply(req, handlerImpl(req, limited, game))

SelfFailSet(uid, limited, gameId) ==
    LET req == Request("selfFailSet", uid, gameId, "", Null, FALSE)
    IN Reply(req, handlerImpl(req, limited, game))

SelfFailResp(uid, limited, gameId) ==
    LET req == Request("selfFailResp", uid, gameId, "", Null, FALSE)
    IN Reply(req, handlerImpl(req, limited, game))

-----------------------------------------------------------------------------
(* Specification: handlers invoked one at a time *)

Idle == [pc |-> "idle", req |-> NoRequest, snap |-> Null, readVersion |-> 0]

Clients == {1, 2}

\* No game document stored and no createGame in flight.
IdleCreate == [pc |-> "idle", attempt |-> 0, candidate |-> "", err |-> OK]
\* The rateLimits documents: one per `<functionName>_<identifier>` key of
\* the modelled operation.
BucketKeys == {"uid_alice", "ip_1-2-3-4"}
NoBucket == [doc |-> Null, ver |-> 0]
IdleLimit ==
    [pc |-> "idle", now |-> 0, ids |-> <<>>, idx |-> 0, readVer |-> 0, write |-> Null]

InitAux ==
    /\ stored = <<>>
    /\ creates = [c \in Clients |-> IdleCreate]
    /\ buckets = [k \in BucketKeys |-> NoBucket]
    /\ limits = [c \in Clients |-> IdleLimit]
    /\ clock = 0
    /\ admits = [k \in BucketKeys |-> 0]

Init ==
    /\ game = Null
    /\ version = 0
    /\ last = NoRequest
    /\ txs = [c \in Clients |-> Idle]
    /\ InitAux

\* The step keeps the history within the explored length.
Within(n) == HistoryLen(game') <= n

Next ==
    \/ \E uid \in Callers, limited \in BOOLEAN, code \in CodeDraws :
          CreateGame(uid, limited, code) /\ Within(MaxHistory)
    \/ \E uid \in Callers, limited \in BOOLEAN, code \in JoinCodes :
          JoinGame(uid, limited, code) /\ Within(MaxHistory)
    \/ \E uid \in Callers, limited \in BOOLEAN, gameId \in GameIds, path \in ClipInputs :
          SubmitSetClip(uid, limited, gameId, path) /\ Within(MaxHistory)
    \/ \E uid \in Callers, limited \in BOOLEAN, gameId \in GameIds, approve \in BOOLEAN :
          JudgeSet(uid, limited, gameId, approve) /\ Within(MaxHistory)
    \/ \E uid \in Callers, limited \in BOOLEAN, gameId \in GameIds, path \in ClipInputs :
          SubmitRespClip(uid, limited, gameId, path) /\ Within(MaxHistory)
    \/ \E uid \in Callers, limited \in BOOLEAN, gameId \in GameIds, approve \in BOOLEAN :
          JudgeResp(uid, limited, gameId, approve) /\ Within(MaxHistory)
    \/ \E uid \in Callers, limited \in BOOLEAN, gameId \in GameIds :
          SelfFailSet(uid, limited, gameId) /\ Within(MaxHistory)
    \/ \E uid \in Callers, limited \in BOOLEAN, gameId \in GameIds :
          SelfFailResp(uid, limited, gameId) /\ Within(MaxHistory)

Spec == Init /\ [][Next]_vars

-----------------------------------------------------------------------------
(* Specification: a whole match.  Two clients, "alice" who creates the     *)
(* game and "bob" who joins it, call every operation in every state with   *)
(* well-formed inputs.                                                     *)

MatchUids == {"alice", "bob"}

NextMatch ==
    \/ CreateGame("alice", FALSE, "ABC234") /\ Within(MaxMatchHistory)
    \/ \E uid \in MatchUids : JoinGame(uid, FALSE, "ABC234") /\ Within(MaxMatchHistory)
    \/ \E uid \in MatchUids :
          SubmitSetClip(uid, FALSE, TheGame, SetClipA) /\ Within(MaxMatchHistory)
    \/ \E uid \in MatchUids, approve \in BOOLEAN :
          JudgeSet(uid, FALSE, TheGame, approve) /\ Within(MaxMatchHistory)
    \/ \E uid \in MatchUids :
          SubmitRespClip(uid, FALSE, TheGame, RespClipA) /\ Within(MaxMatchHistory)
    \/ \E uid \in MatchUids, approve \in BOOLEAN :
          JudgeResp(uid, FALSE, TheGame, approve) /\ Within(MaxMatchHistory)
    \/ \E uid \in MatchUids : SelfFailSet(uid, FALSE, TheGame) /\ Within(MaxMatchHistory)
    \/ \E uid \in MatchUids : SelfFailResp(uid, FALSE, TheGame) /\ Within(MaxMatchHistory)

SpecMatch == Init /\ [][NextMatch]_vars

\* A match of the same two clients in which every set clip is approved, so
\* that every round ends in a landed or a failed response.
NextRally ==
    \/ CreateGame("alice", FALSE, "ABC234") /\ Within(MaxRallyHistory)
    \/ \E uid \in MatchUids : JoinGame(uid, FALSE, "ABC234") /\ Within(MaxRallyHistory)
    \/ \E uid \in MatchUids :
          SubmitSetClip(uid, FALSE, TheGame, SetClipA) /\ Within(MaxRallyHistory)
    \/ \E uid \in MatchUids :
          JudgeSet(uid, FALSE, TheGame, TRUE) /\ Within(MaxRallyHistory)
    \/ \E uid \in MatchUids :
          SubmitRespClip(uid, FALSE, TheGame, RespClipA) /\ Within(MaxRallyHistory)
    \/ \E uid \in MatchUids, approve \in BOOLEAN :
          JudgeResp(uid, FALSE, TheGame, approve) /\ Within(MaxRallyHistory)
    \/ \E uid \in MatchUids : SelfFailResp(uid, FALSE, TheGame) /\ Within(MaxRallyHistory)

SpecRally == Init /\ [][NextRally]_vars

\* The handlers applied to any stored record that gameSchema.safeParse
\* admits: the document is read from the store and may have been written
\* outside the handlers, so phase, turn, current and the last history entry
\* are drawn independently.
StoredHistories ==
    {<<>>} \cup {<<HistoryEntry("A", Null, Null, result)>> : result \in Results}

StoredRecords ==
    {[code |-> "ABC234",
      turn |-> turn,
      phase |-> phase,
      winner |-> Null,
      players |-> [A |-> Player("alice"), B |-> Some(Player("bob"))],
      current |-> Current(by, setVideoPath, responseVideoPath),
      history |-> history] :
        turn \in PlayerKeys, by \in PlayerKeys, phase \in Phases,
        setVideoPath \in {Null, Some(SetClipA)},
        responseVideoPath \in {Null, Some(RespClipA)},
        history \in StoredHistories}

InitStored ==
    /\ game \in {Some(data) : data \in {r \in StoredRecords : gameSchema(r)}}
    /\ version = 1
    /\ last = NoRequest
    /\ txs = [c \in Clients |-> Idle]
    /\ InitAux

NextStored ==
    \/ \E uid \in MatchUids :
          SubmitSetClip(uid, FALSE, TheGame, SetClipA) /\ Within(MaxStoredHistory)
    \/ \E uid \in MatchUids, approve \in BOOLEAN :
          JudgeSet(uid, FALSE, TheGame, approve) /\ Within(MaxStoredHistory)
    \/ \E uid \in MatchUids :
          SubmitRespClip(uid, FALSE, TheGame, RespClipA) /\ Within(MaxStoredHistory)
    \/ \E uid \in MatchUids, approve \in BOOLEAN :
          JudgeResp(uid, FALSE, TheGame, approve) /\ Within(MaxStoredHistory)
    \/ \E uid \in MatchUids : SelfFailSet(uid, FALSE, TheGame) /\ Within(MaxStoredHistory)
    \/ \E uid \in MatchUids : SelfFailResp(uid, FALSE, TheGame) /\ Within(MaxStoredHistory)

SpecStored == InitStored /\ [][NextStored]_vars

-----------------------------------------------------------------------------
(* Specification: concurrent invocations.  db.runTransaction reads the     *)
(* document (TxBegin), runs the callback on that snapshot and commits the  *)
(* update only if the document was not written since the read (TxCommit);  *)
(* otherwise it runs the callback again on a fresh read (TxRetry).         *)

TxRequests ==
    {Request("joinGame", uid, "", "ABC234", Null, FALSE) : uid \in Uids}
    \cup {Request(op, uid, TheGame, "", Some(path), FALSE) :
            op \in {"submitSetClip"}, uid \in Uids, path \in {SetClipA, SetClipB}}
    \cup {Request(op, uid, TheGame, "", Some(path), FALSE) :
            op \in {"submitRespClip"}, uid \in Uids, path \in {RespClipA}}
    \cup {Request(op, uid, TheGame, "", Null, approve) :
            op \in {"judgeSet", "judgeResp"}, uid \in Uids, approve \in BOOLEAN}
    \cup {Request(op, uid, TheGame, "", Null, FALSE) :
            op \in {"selfFailSet", "selfFailResp"}, uid \in Uids}

\* The document was not written since the transaction read it.
unchangedSinceUnchecked(readVersion) == TRUE
unchangedSince(readVersion) == readVersion = version

\* One attempt of the callback: tx.get and the callback run on what it
\* returned.  A callback that throws ends the invocation with nothing
\* written; one that returns leaves its update waiting for the commit.
attemptCachedRead(c, req) ==
    LET snap == IF txs[c].pc = "running" THEN txs[c].snap ELSE txGet(req, game) IN
    IF txCallback(req, snap).err = OK
        THEN [txs EXCEPT ![c] = [pc |-> "running", req |-> req,
                                 snap |-> snap, readVersion |-> version]]
        ELSE [txs EXCEPT ![c] = Idle]
attempt(c, req) ==
    LET snap == txGet(req, game) IN
    IF txCallback(req, snap).err = OK
        THEN [txs EXCEPT ![c] = [pc |-> "running", req |-> req,
                                 snap |-> snap, readVersion |-> version]]
        ELSE [txs EXCEPT ![c] = Idle]

\* Slots are taken lowest first.
freeSlot(c) == txs[c].pc = "idle" /\ \A d \in Clients : d < c => txs[d].pc # "idle"

TxBegin(c, req) ==
    /\ freeSlot(c)
    /\ txs' = attempt(c, req)
    /\ UNCHANGED <<game, version, last>>
    /\ UNCHANGED aux

TxCommit(c) ==
    /\ txs[c].pc = "running"
    /\ unchangedSince(txs[c].readVersion)
    /\ LET out == txCallback(txs[c].req, txs[c].snap) IN
        /\ game' = committed(out, game)
        /\ version' = version + 1
        /\ last' = txs[c].req
    /\ txs' = [txs EXCEPT ![c] = Idle]
    /\ UNCHANGED aux

TxRetry(c) ==
    /\ txs[c].pc = "running"
    /\ ~unchangedSince(txs[c].readVersion)
    /\ txs' = attempt(c, txs[c].req)
    /\ UNCHANGED <<game, version, last>>
    /\ UNCHANGED aux

NextTx ==
    \/ CreateGame("alice", FALSE, "ABC234")
    \/ \E c \in Clients, req \in TxRequests : TxBegin(c, req)
    \/ \E c \in Clients : TxCommit(c) /\ Within(MaxTxHistory)
    \/ \E c \in Clients : TxRetry(c)

SpecTx == Init /\ [][NextTx]_vars

-----------------------------------------------------------------------------
(* Specification: createGame invocations on the `games` collection.        *)
(* generateGameCode draws a candidate and queries the collection for it,   *)
(* up to MaxAttempts times; createGameImpl then writes the document with   *)
(* gameRef.set, outside any transaction.  Each await is one step.          *)

MaxAttempts == 10

Range(seq) == {seq[i] : i \in 1..Len(seq)}

\* for (let attempt = 0; attempt < 10; attempt += 1)
attemptsLeftInclusive(n) == n <= MaxAttempts
attemptsLeft(n) == n < MaxAttempts

\* existing.empty: no stored game carries the candidate.
existingEmpty(candidate) == candidate \notin Range(stored)

InFlight == {c \in Clients : creates[c].pc # "idle"}

\* createGameImpl is invoked (auth and rate limit passed).
CreateBegin(c) ==
    /\ creates[c].pc = "idle"
    /\ Len(stored) + Cardinality(InFlight) < MaxGames
    /\ creates' = [creates EXCEPT ![c] = [IdleCreate EXCEPT !.pc = "drawing"]]
    /\ UNCHANGED <<game, version, last, txs, stored>>
    /\ UNCHANGED rate

\* One pass of the loop: randomCode, then the query on `code`.
DrawCandidate(c, candidate) ==
    /\ creates[c].pc = "drawing"
    /\ attemptsLeft(creates[c].attempt)
    /\ creates' = [creates EXCEPT ![c] =
            [pc |-> IF existingEmpty(candidate) THEN "writing" ELSE "drawing",
             attempt |-> creates[c].attempt + 1,
             candidate |-> candidate,
             err |-> OK]]
    /\ UNCHANGED <<game, version, last, txs, stored>>
    /\ UNCHANGED rate

\* The loop ends without a free candidate: throw internal.
CodeExhausted(c) ==
    /\ creates[c].pc = "drawing"
    /\ ~attemptsLeft(creates[c].attempt)
    /\ creates' = [creates EXCEPT ![c] = [@ EXCEPT !.pc = "failed", !.err = ErrNoCode]]
    /\ UNCHANGED <<game, version, last, txs, stored>>
    /\ UNCHANGED rate

\* await gameRef.set(gameData)
WriteGame(c) ==
    /\ creates[c].pc = "writing"
    /\ stored' = Append(stored, creates[c].candidate)
    /\ creates' = [creates EXCEPT ![c] = [@ EXCEPT !.pc = "done"]]
    /\ UNCHANGED <<game, version, last, txs>>
    /\ UNCHANGED rate

\* The invocation returns or rethrows to its caller.
CreateReturn(c) ==
    /\ creates[c].pc \in {"done", "failed"}
    /\ creates' = [creates EXCEPT ![c] = IdleCreate]
    /\ UNCHANGED <<game, version, last, txs, stored>>
    /\ UNCHANGED rate

NextCodes ==
    \/ \E c \in Clients : CreateBegin(c)
    \/ \E c \in Clients, candidate \in CodeSpace : DrawCandidate(c, candidate)
    \/ \E c \in Clients : CodeExhausted(c)
    \/ \E c \in Clients : WriteGame(c)
    \/ \E c \in Clients : CreateReturn(c)

SpecCodes == Init /\ [][NextCodes]_vars

-----------------------------------------------------------------------------
(* Specification: the rate limiter in front of a handler.  An invocation   *)
(* takes `now` when it arrives, consumes one bucket per identifier (uid,    *)
(* then ip) in its own transaction on the bucket document, and only then    *)
(* runs the handler on the game.                                            *)

Ips == {Null, Some("1.2.3.4")}

\* sanitizeIdentifier: every character outside [a-zA-Z0-9_-] becomes '-'.
sanitizeIdentifier(identifier) ==
    IF identifier = "ip_1.2.3.4" THEN "ip_1-2-3-4" ELSE identifier

\* enforceFunctionRateLimit / enforceRateLimit: the bucket keys of a call.
identifiersOf(uid, ip) ==
    <<sanitizeIdentifier("uid_alice")>>
        \o (IF IsNull(ip) THEN <<>> ELSE <<sanitizeIdentifier("ip_1.2.3.4")>>)

\* The callback of consumeBucket on the snapshot it read: the error it
\* throws, or the document it writes.
consumeBucketAbove(snap, now) ==
    LET windowStart == now - WindowMs IN
    IF ~IsNull(snap) /\ Val(snap).windowStart > windowStart
        THEN IF Val(snap).count > RateMax
                THEN [err |-> ErrRateLimited, write |-> Null]
                ELSE [err |-> OK, write |-> Some([Val(snap) EXCEPT !.count = @ + 1])]
        ELSE [err |-> OK, write |-> Some([count |-> 1, windowStart |-> now])]
consumeBucket(snap, now) ==
    LET windowStart == now - WindowMs IN
    IF ~IsNull(snap) /\ Val(snap).windowStart > windowStart
        THEN IF Val(snap).count >= RateMax
                THEN [err |-> ErrRateLimited, write |-> Null]
                ELSE [err |-> OK, write |-> Some([Val(snap) EXCEPT !.count = @ + 1])]
        ELSE [err |-> OK, write |-> Some([count |-> 1, windowStart |-> now])]

\* The request the modelled operation carries once admitted.
LimitedRequest == Request("selfFailSet", "alice", TheGame, "", Null, FALSE)

\* tx.get on the bucket of the call's current identifier, then the callback.
readBucket(rec) ==
    LET key == rec.ids[rec.idx]
        out == consumeBucket(buckets[key].doc, rec.now)
    IN IF out.err # OK
          THEN [rec EXCEPT !.pc = "limited", !.write = Null]
          ELSE [rec EXCEPT !.pc = "consume", !.readVer = buckets[key].ver,
                           !.write = out.write]

bucketUnchangedUnchecked(key, readVer) == TRUE
bucketUnchanged(key, readVer) == buckets[key].ver = readVer

Arrive(c, ip) ==
    /\ limits[c].pc = "idle"
    /\ limits' = [limits EXCEPT ![c] =
            readBucket([IdleLimit EXCEPT !.now = clock,
                                         !.ids = identifiersOf("alice", ip),
                                         !.idx = 1])]
    /\ UNCHANGED <<game, version, last, txs, stored, creates, buckets, clock, admits>>

ConsumeCommit(c) ==
    LET rec == limits[c]
        key == rec.ids[rec.idx]
    IN
    /\ rec.pc = "consume"
    /\ bucketUnchanged(key, rec.readVer)
    /\ buckets' = [buckets EXCEPT ![key] = [doc |-> rec.write, ver |-> @.ver + 1]]
    /\ admits' = [admits EXCEPT ![key] =
            IF IsNull(buckets[key].doc)
                    \/ Val(buckets[key].doc).windowStart <= rec.now - WindowMs
                THEN 1 ELSE @ + 1]
    /\ limits' = [limits EXCEPT ![c] =
            IF rec.idx < Len(rec.ids)
                THEN readBucket([rec EXCEPT !.idx = @ + 1])
                ELSE [rec EXCEPT !.pc = "admitted", !.write = Null]]
    /\ UNCHANGED <<game, version, last, txs, stored, creates, clock>>

ConsumeRetry(c) ==
    /\ limits[c].pc = "consume"
    /\ ~bucketUnchanged(limits[c].ids[limits[c].idx], limits[c].readVer)
    /\ limits' = [limits EXCEPT ![c] = readBucket(limits[c])]
    /\ UNCHANGED <<game, version, last, txs, stored, creates, buckets, clock, admits>>

\* The handler body runs once every bucket has admitted the call.
Handle(c) ==
    /\ limits[c].pc = "admitted"
    /\ Apply(LimitedRequest, handlerImpl(LimitedRequest, FALSE, game))
    /\ limits' = [limits EXCEPT ![c] = IdleLimit]
    /\ UNCHANGED <<txs, stored, creates, buckets, clock, admits>>

\* The resource-exhausted error reaches the caller.
LimitReturn(c) ==
    /\ limits[c].pc = "limited"
    /\ limits' = [limits EXCEPT ![c] = IdleLimit]
    /\ UNCHANGED <<game, version, last, txs, stored, creates, buckets, clock, admits>>

Tick ==
    /\ clock < MaxClock
    /\ clock' = clock + 1
    /\ UNCHANGED <<game, version, last, txs, stored, creates, buckets, limits, admits>>

NextRate ==
    \/ CreateGame("alice", FALSE, "ABC234")
    \/ \E c \in Clients, ip \in Ips : Arrive(c, ip)
    \/ \E c \in Clients : ConsumeCommit(c)
    \/ \E c \in Clients : ConsumeRetry(c)
    \/ \E c \in Clients : Handle(c)
    \/ \E c \in Clients : LimitReturn(c)
    \/ Tick

SpecRate == Init /\ [][NextRate]_vars

-----------------------------------------------------------------------------
(* Properties *)

Created == ~IsNull(game)
Doc == Val(game)
DocNext == Val(game')
HasWinner(store) == ~IsNull(store) /\ ~IsNull(Val(store).winner)
Committing == version' # version
OtherSlot(k) == IF k = "A" THEN "B" ELSE "A"
LettersAt(data, k) ==
    IF k = "A" THEN data.players.A.letters
    ELSE IF IsNull(data.players.B) THEN "" ELSE Val(data.players.B).letters
BothLetters(data) == {LettersAt(data, "A"), LettersAt(data, "B")}
SlotOf(data, uid) ==
    IF data.players.A.uid = uid THEN "A"
    ELSE IF ~IsNull(data.players.B) /\ Val(data.players.B).uid = uid THEN "B"
    ELSE "none"

\* The join and gameplay requests the callers of Spec can send.
HandlerRequests ==
    {Request("joinGame", uid, "", code, Null, FALSE) : uid \in Callers, code \in JoinCodes}
    \cup {Request(op, uid, gameId, "", Some(path), FALSE) :
            op \in {"submitSetClip", "submitRespClip"}, uid \in Callers,
            gameId \in GameIds, path \in ClipInputs}
    \cup {Request(op, uid, gameId, "", Null, approve) :
            op \in {"judgeSet", "judgeResp"}, uid \in Callers,
            gameId \in GameIds, approve \in BOOLEAN}
    \cup {Request(op, uid, gameId, "", Null, FALSE) :
            op \in {"selfFailSet", "selfFailResp"}, uid \in Callers, gameId \in GameIds}

\* C1: over every sequence of accepted actions the winner is written at
\* most once: once winner is non-null it is never cleared and never
\* changes to the other slot.
WinnerWrittenOnce ==
    [][HasWinner(game) => (HasWinner(game') /\ DocNext.winner = Doc.winner)]_vars

\* C2: once the winner is non-null the game is terminal: every later
\* gameplay action is rejected and the record stays unchanged.
TerminalAfterWinner == [][HasWinner(game) => game' = game]_vars

\* C7: the history length never decreases and every entry below the last
\* one is identical in all later states; only the last entry may be
\* rewritten.
HistoryAppendOnly ==
    [][Created =>
         /\ Len(DocNext.history) >= Len(Doc.history)
         /\ \A i \in 1..(Len(Doc.history) - 1) : DocNext.history[i] = Doc.history[i]]_vars

\* C7 witness: a response was judged or self-failed under an older entry.
HistoryRewrittenUnderOlderEntry ==
    /\ Created
    /\ Len(Doc.history) >= 2
    /\ last.op \in {"judgeResp", "selfFailResp"}
    /\ Doc.history[Len(Doc.history)].result \in {"landed", "failed"}

\* C8: winner is null exactly while no player's letters equal 'SK8';
\* a non-null winner is the opponent of a player whose letters are 'SK8'.
WinnerIffLettersComplete ==
    Created =>
        /\ IsNull(Doc.winner) <=> "SK8" \notin BothLetters(Doc)
        /\ ~IsNull(Doc.winner) => LettersAt(Doc, OtherSlot(Val(Doc.winner))) = "SK8"

\* C8 witness: a failed response completed the responder's letters.
WinnerDeclared ==
    /\ HasWinner(game)
    /\ last.op \in {"judgeResp", "selfFailResp"}
    /\ LettersAt(Doc, OtherSlot(Val(Doc.winner))) = "SK8"
    /\ LettersAt(Doc, Val(Doc.winner)) # "SK8"

PrefixStep(before, after) ==
    \/ after = before
    \/ before = ""   /\ after = "S"
    \/ before = "S"  /\ after = "SK"
    \/ before = "SK" /\ after = "SK8"

\* C9: each player's letters are one of '', 'S', 'SK', 'SK8'; across any
\* accepted action they stay the same or advance by exactly one prefix
\* step, and never shorten.
LettersArePrefixes ==
    /\ [](Created => BothLetters(Doc) \subseteq LettersValues)
    /\ [][Created => \A k \in PlayerKeys :
                        PrefixStep(LettersAt(Doc, k), LettersAt(DocNext, k))]_vars

\* C9 witness: both players carry letters, one of them two steps in.
LettersAdvanced ==
    /\ Created
    /\ LettersAt(Doc, "B") = "SK"
    /\ LettersAt(Doc, "A") = "S"

\* C3: transitions are linearizable per game: every committed write was
\* validated against exactly the record version that immediately precedes
\* it, and is a legal transition of that version.
Linearizable ==
    [][Committing =>
         \/ IsNull(game) /\ last'.op = "createGame"
         \/ \E c \in Clients :
              /\ txs[c].pc = "running" /\ txs'[c].pc = "idle"
              /\ txs[c].req = last'
              /\ txs[c].snap = txGet(txs[c].req, game)
              /\ LET out == txCallback(txs[c].req, txGet(txs[c].req, game))
                 IN out.err = OK /\ game' = out.doc]_vars

\* C3 witness: a transaction holds a snapshot that another one's commit
\* has made stale.
StaleSnapshotPending ==
    \E c \in Clients :
        /\ txs[c].pc = "running"
        /\ txs[c].readVersion < version
        /\ txs[c].snap # txGet(txs[c].req, game)

RunningSetClip(c) == txs[c].pc = "running" /\ txs[c].req.op = "submitSetClip"
SetClipStored == Created /\ ~IsNull(Doc.current.setVideoPath)

RejectedLeavesUnchanged ==
    \A req \in HandlerRequests, limited \in BOOLEAN :
        LET out == handlerImpl(req, limited, game)
        IN out.err # OK => (~out.wrote /\ committed(out, game) = game)

\* C5 witness: a full game in RESP_JUDGE, where a join is refused as full
\* and a second response clip as already submitted.
RejectionsOccur ==
    /\ Created /\ Doc.phase = "RESP_JUDGE"
    /\ \E req \in HandlerRequests : handlerImpl(req, FALSE, game).err = ErrFull
    /\ \E req \in HandlerRequests : handlerImpl(req, FALSE, game).err = ErrJudgeRespRole
    /\ \E req \in HandlerRequests : handlerImpl(req, FALSE, game).err = ErrNotParticipant

ByIsTurn == Created => Doc.current.by = Doc.turn

\* C10 witness: a response clip is awaiting judgement by the setter.
AwaitingResponseJudgement ==
    /\ Created /\ Doc.phase = "RESP_JUDGE" /\ last.op = "submitRespClip"
    /\ Doc.current.by = Doc.turn

\* C11: an accepted createGame yields a record with the creator in slot A
\* with empty letters, slot B empty, turn and current.by equal to A, phase
\* SET_RECORD, no clips, an empty history and no winner; an accepted
\* joinGame puts the caller in slot B with empty letters and leaves turn,
\* phase, current, history, winner and slot A unchanged.
CreateAndJoinFrame ==
    [][Committing =>
        /\ last'.op = "createGame" =>
              DocNext = [code |-> last'.code,
                         turn |-> "A",
                         phase |-> "SET_RECORD",
                         winner |-> Null,
                         players |-> [A |-> [uid |-> last'.uid, letters |-> ""],
                                      B |-> Null],
                         current |-> [by |-> "A", setVideoPath |-> Null,
                                      responseVideoPath |-> Null],
                         history |-> <<>>]
        /\ last'.op = "joinGame" =>
              /\ IsNull(Doc.players.B)
              /\ DocNext = [Doc EXCEPT
                    !.players.B = Some([uid |-> last'.uid, letters |-> ""])]]_vars
\* A player joins a game whose creator has already self-failed a set, so
\* the turn the join must preserve is not the initial one.
JoinedAfterTurnPassed ==
    Created /\ last.op = "joinGame" /\ Doc.turn = "B" /\ Len(Doc.history) = 1
        /\ ~IsNull(Doc.players.B) /\ Val(Doc.players.B).uid = last.uid

JoinRequest(uid) == Request("joinGame", uid, "", Doc.code, Null, FALSE)
RunningJoin(c) == txs[c].pc = "running" /\ txs[c].req.op = "joinGame"

\* C12: joining happens at most once per game: the creator's joinGame is
\* rejected as already joined, a joinGame on a full game is rejected as
\* already full, of two concurrent joinGame calls by different users only
\* the one validated against the record without slot B commits while the
\* other ends rejected, a join is lost only to another join, and once set
\* players.B.uid never changes.
JoinOnce ==
    [][Created =>
        /\ txCallback(JoinRequest(Doc.players.A.uid), game) = Reject(ErrCreated)
        /\ ~IsNull(Doc.players.B) =>
              /\ \A uid \in Uids \ {Doc.players.A.uid} :
                    txCallback(JoinRequest(uid), game) = Reject(ErrFull)
              /\ ~IsNull(DocNext.players.B)
              /\ Val(DocNext.players.B).uid = Val(Doc.players.B).uid
        /\ (Committing /\ last'.op = "joinGame") =>
              /\ IsNull(Doc.players.B)
              /\ last'.uid # Doc.players.A.uid
              /\ Val(DocNext.players.B).uid = last'.uid
        /\ \A c \in Clients :
              (RunningJoin(c) /\ txs'[c].pc = "idle") =>
                  \/ Committing /\ last' = txs[c].req
                  \/ ~IsNull(Doc.players.B) /\ game' = game]_vars
\* Two users' joins overlapped: one has committed and the other is still
\* running on the snapshot that had no slot B.
JoinRaceLost ==
    \E c \in Clients :
        /\ RunningJoin(c)
        /\ IsNull(Val(txs[c].snap).players.B)
        /\ Created /\ ~IsNull(Doc.players.B)
        /\ Val(Doc.players.B).uid # txs[c].req.uid
        /\ last.op = "joinGame"

\* The gameplay calls a signed-in user can make on the game, once the
\* rate limiter has admitted them.
GameplayCalls(uid) ==
    {req \in HandlerRequests :
        req.op \in GameplayOps /\ req.gameId = TheGame /\ req.uid = uid}
Outsiders == {uid \in Uids : SlotOf(Doc, uid) = "none"}
Participants == {uid \in Uids : SlotOf(Doc, uid) # "none"}

\* C13: for every gameplay operation and every state of the game, a call
\* by an authenticated user who is neither players.A.uid nor players.B.uid
\* is rejected as not a participant and writes nothing.
OutsidersRejected ==
    Created =>
        \A uid \in Outsiders : \A req \in GameplayCalls(uid) :
            handlerImpl(req, FALSE, game) = Reject(ErrNotParticipant)
\* Both slots are taken, a third user is outside, and the record awaits a
\* judgement that a participant is allowed to make.
OutsiderDuringJudgement ==
    /\ Created /\ ~IsNull(Doc.players.B) /\ Doc.phase = "RESP_JUDGE"
    /\ Outsiders # {}
    /\ \E uid \in Participants : \E req \in GameplayCalls(uid) :
            req.op = "judgeResp" /\ handlerImpl(req, FALSE, game).err = OK

\* The slot each gameplay operation is reserved for.
RequiredRole(op, data) ==
    CASE op \in {"submitSetClip", "selfFailSet"} -> data.turn
      [] op = "judgeResp" -> data.current.by
      [] OTHER -> OtherSlot(data.current.by)

\* C14: for every gameplay operation and whatever the phase, a call by a
\* participant whose slot is not the one the operation requires is
\* rejected with the wrong-role kind (permission-denied), which is not the
\* invalid-phase kind (failed-precondition).
WrongRoleRejected ==
    Created =>
        \A uid \in Participants : \A req \in GameplayCalls(uid) :
            SlotOf(Doc, uid) # RequiredRole(req.op, Doc) =>
                codeOf(handlerImpl(req, FALSE, game).err) = "permission-denied"

SetClipCalls(uid) == {req \in GameplayCalls(uid) : req.op = "submitSetClip"}

\* C15: submitSetClip on a game whose current.setVideoPath is already
\* populated always fails with the already-submitted kind ("Set clip
\* already submitted."), whichever participant calls it, and never
\* overwrites the stored path.
SetClipAlreadySubmitted ==
    (Created /\ ~IsNull(Doc.current.setVideoPath)) =>
        \A uid \in Participants : \A req \in SetClipCalls(uid) :
            handlerImpl(req, FALSE, game) = Reject(ErrSetSubmitted)

JudgedEntry(data, result) ==
    [by |-> data.current.by, setPath |-> data.current.setVideoPath,
     respPath |-> Null, result |-> result]

\* C16: an accepted judgeSet with approve = false appends one history
\* entry with result declined_set, clears both clip paths, returns the
\* phase to SET_RECORD and keeps turn and current.by on the same setter;
\* letters and winner are untouched.  After create, join, a set clip by A
\* and a decline by B the history has length 1.
DeclineFrame ==
    [][(Committing /\ last'.op = "judgeSet" /\ ~last'.approve) =>
        /\ Doc.turn = Doc.current.by
        /\ DocNext = [Doc EXCEPT
              !.history = Append(@, JudgedEntry(Doc, "declined_set")),
              !.phase = "SET_RECORD",
              !.current = [by |-> Doc.current.by, setVideoPath |-> Null,
                           responseVideoPath |-> Null]]
        /\ version = 3 => Len(DocNext.history) = 1]_vars
\* The fourth write of a game is a decline of the first set clip.
FirstSetDeclined ==
    /\ Created /\ version = 4 /\ last.op = "judgeSet" /\ ~last.approve
    /\ Doc.phase = "SET_RECORD" /\ Doc.turn = "A" /\ Doc.current.by = "A"
    /\ Len(Doc.history) = 1 /\ Doc.history[1].result = "declined_set"
    /\ IsNull(Doc.current.setVideoPath)

\* The record after create by A, join by B, a set clip by A, an approval
\* by B, a response clip by B and judgeResp(false) by A: the only six
\* writes that end in a judged response.
AfterFirstFailedResponse ==
    Created /\ version = 6 /\ last.op = "judgeResp" /\ ~last.approve

\* C17: after create by A, join by B, submitSetClip by A, judgeSet(true)
\* by B, submitRespClip by B and judgeResp(false) by A, players.B.letters
\* is "S", players.A.letters is "", turn is B, phase is SET_RECORD, the
\* history has length 2 and its last entry has result failed.
ScoringFlow ==
    AfterFirstFailedResponse =>
        /\ LettersAt(Doc, "B") = "S"
        /\ LettersAt(Doc, "A") = ""
        /\ Doc.turn = "B"
        /\ Doc.phase = "SET_RECORD"
        /\ Len(Doc.history) = 2
        /\ Doc.history[Len(Doc.history)].result = "failed"

\* The record after create by A, join by B, selfFailSet by A, a set clip
\* by B and its approval by A.
AfterSelfFailedSetApproved ==
    /\ Created /\ version = 5 /\ last.op = "judgeSet" /\ last.approve
    /\ Len(Doc.history) = 2 /\ Doc.history[1].result = "failed"
    /\ Doc.current.by = "B"
SelfFailRespByB ==
    Request("selfFailResp", Val(Doc.players.B).uid, TheGame, "", Null, FALSE)

\* C19: in the sequence create by A, join by B, selfFailSet by A,
\* submitSetClip by B, judgeSet(true) by A, selfFailResp by B every call
\* is accepted; after the selfFailSet turn is B and the history has length
\* 1; after the final selfFailResp players.B.letters is "S" and turn is B.
SelfFailFlow ==
    /\ (Created /\ version = 3 /\ last.op = "selfFailSet" /\ ~IsNull(Doc.players.B)) =>
            Doc.turn = "B" /\ Len(Doc.history) = 1
    /\ AfterSelfFailedSetApproved =>
            LET out == handlerImpl(SelfFailRespByB, FALSE, game) IN
            /\ out.err = OK
            /\ LettersAt(Val(out.doc), "B") = "S"
            /\ Val(out.doc).turn = "B"

\* C20: an accepted judgeSet with approve = true appends exactly one
\* history entry with result approved_set, moves the phase to RESP_RECORD,
\* keeps current.setVideoPath, leaves current.responseVideoPath absent and
\* keeps turn and current.by on the setter; letters and winner are
\* untouched.
ApproveFrame ==
    [][(Committing /\ last'.op = "judgeSet" /\ last'.approve) =>
        /\ Doc.turn = Doc.current.by
        /\ ~IsNull(Doc.current.setVideoPath)
        /\ DocNext = [Doc EXCEPT
              !.history = Append(@, JudgedEntry(Doc, "approved_set")),
              !.phase = "RESP_RECORD",
              !.current = [by |-> Doc.current.by,
                           setVideoPath |-> Doc.current.setVideoPath,
                           responseVideoPath |-> Null]]]_vars
\* A set has just been approved and waits for the response.
SetApproved ==
    /\ Created /\ last.op = "judgeSet" /\ last.approve
    /\ Doc.phase = "RESP_RECORD"
    /\ ~IsNull(Doc.current.setVideoPath) /\ IsNull(Doc.current.responseVideoPath)
    /\ Doc.history[Len(Doc.history)].result = "approved_set"

FailedResponse(req) ==
    req.op = "selfFailResp" \/ (req.op = "judgeResp" /\ ~req.approve)

\* C18: a failed response sets winner to the setter, in the same write,
\* exactly when it advances the responder's letters from "SK" to "SK8";
\* otherwise, and whenever the responder's letters after the step are "",
\* "S" or "SK", the winner field is left as it was.
FailedResponseWinner ==
    [][(Committing /\ FailedResponse(last')) =>
        LET responder == OtherSlot(Doc.current.by)
            before == LettersAt(Doc, responder)
            after == LettersAt(DocNext, responder)
        IN IF before = "SK" /\ after = "SK8"
              THEN DocNext.winner = Some(Doc.current.by)
              ELSE DocNext.winner = Doc.winner]_vars

Trimmed(path) == [path EXCEPT !.ws = FALSE]
RespClipCalls(uid) == {req \in GameplayCalls(uid) : req.op = "submitRespClip"}

\* C21: submitRespClip is accepted only from the responder in RESP_RECORD
\* with no response clip stored; it stores the reference as
\* current.responseVideoPath, keeps current.setVideoPath, current.by, turn,
\* history and letters and moves the phase to RESP_JUDGE; once a response
\* clip is stored every further submitRespClip is rejected and writes
\* nothing.
RespClipFrame ==
    /\ [][(Committing /\ last'.op = "submitRespClip") =>
            /\ SlotOf(Doc, last'.uid) = OtherSlot(Doc.current.by)
            /\ Doc.phase = "RESP_RECORD"
            /\ IsNull(Doc.current.responseVideoPath)
            /\ ~IsNull(Doc.current.setVideoPath)
            /\ DocNext = [Doc EXCEPT
                  !.phase = "RESP_JUDGE",
                  !.current = [by |-> Doc.current.by,
                               setVideoPath |-> Doc.current.setVideoPath,
                               responseVideoPath |-> Some(Trimmed(Val(last'.path)))]]]_vars
    /\ []((Created /\ ~IsNull(Doc.current.responseVideoPath)) =>
            \A uid \in Uids : \A req \in RespClipCalls(uid) :
                LET out == handlerImpl(req, FALSE, game) IN
                out.err # OK /\ ~out.wrote /\ committed(out, game) = game)
\* A response clip is stored and the responder who stored it asks again
\* with a well-formed path.
RespClipStoredTwice ==
    /\ Created /\ last.op = "submitRespClip" /\ Doc.phase = "RESP_JUDGE"
    /\ Doc.current.responseVideoPath = Some(Trimmed(Val(last.path)))
    /\ \E req \in RespClipCalls(last.uid) :
            /\ validateStoragePath(TheGame, Val(req.path), "response") = OK
            /\ handlerImpl(req, FALSE, game).err = ErrRespPhase

RewrittenLast(data, respPath, result) ==
    [data.history EXCEPT ![Len(data.history)] =
        [by |-> data.history[Len(data.history)].by,
         setPath |-> data.current.setVideoPath,
         respPath |-> respPath,
         result |-> result]]
RotatedToResponder(data) ==
    [by |-> OtherSlot(data.current.by), setVideoPath |-> Null,
     responseVideoPath |-> Null]

\* C22: an accepted judgeResp with approve = true, made in RESP_JUDGE,
\* rewrites the last history entry to result landed without changing the
\* history length, changes no letters and not the winner, sets turn and
\* current.by to the responder, clears both clips and moves the phase to
\* SET_RECORD.
LandedFrame ==
    [][(Committing /\ last'.op = "judgeResp" /\ last'.approve) =>
        /\ Doc.phase = "RESP_JUDGE"
        /\ Len(Doc.history) >= 1
        /\ DocNext = [Doc EXCEPT
              !.history = RewrittenLast(Doc, Doc.current.responseVideoPath, "landed"),
              !.phase = "SET_RECORD",
              !.turn = OtherSlot(Doc.current.by),
              !.current = RotatedToResponder(Doc)]]_vars
\* A response has just been judged as landed.
ResponseLanded ==
    /\ Created /\ last.op = "judgeResp" /\ last.approve
    /\ Doc.phase = "SET_RECORD"
    /\ Doc.history[Len(Doc.history)].result = "landed"
    /\ BothLetters(Doc) = {""}
    /\ SlotOf(Doc, last.uid) = OtherSlot(Doc.turn)

\* C23: an accepted selfFailSet, made by the player in slot turn during
\* SET_RECORD, appends exactly one history entry with result failed and no
\* clip references, sets turn and current.by to the opponent, leaves both
\* clips absent, keeps the phase SET_RECORD and changes no letters and not
\* the winner.
SelfFailSetFrame ==
    [][(Committing /\ last'.op = "selfFailSet") =>
        /\ Doc.phase = "SET_RECORD"
        /\ SlotOf(Doc, last'.uid) = Doc.turn
        /\ DocNext = [Doc EXCEPT
              !.history = Append(@, [by |-> Doc.turn, setPath |-> Null,
                                     respPath |-> Null, result |-> "failed"]),
              !.turn = OtherSlot(Doc.turn),
              !.current = [by |-> OtherSlot(Doc.turn), setVideoPath |-> Null,
                           responseVideoPath |-> Null]]]_vars
\* A player who already holds a letter has just self-failed a set.
SetSelfFailedWithLetters ==
    /\ Created /\ last.op = "selfFailSet" /\ Doc.phase = "SET_RECORD"
    /\ Len(Doc.history) >= 2
    /\ LettersAt(Doc, SlotOf(Doc, last.uid)) = "S"
    /\ Doc.turn = OtherSlot(SlotOf(Doc, last.uid))

StepOf(letters) ==
    CASE letters = "" -> "S" [] letters = "S" -> "SK" [] OTHER -> "SK8"

LastResult(data) ==
    IF Len(data.history) = 0 THEN "none" ELSE data.history[Len(data.history)].result
ResponseVerdicts(uid) ==
    {req \in GameplayCalls(uid) : req.op \in {"judgeResp", "selfFailResp"}}

\* C25: judgeResp and selfFailResp are rejected, with the game record
\* unchanged, whenever the history is empty or its last entry's result is
\* not approved_set; only an entry whose result is approved_set is ever
\* rewritten to landed or failed.
ApprovalRequired ==
    /\ []((Created /\ LastResult(Doc) # "approved_set") =>
            \A uid \in Uids : \A req \in ResponseVerdicts(uid) :
                LET out == handlerImpl(req, FALSE, game) IN
                out.err # OK /\ ~out.wrote /\ committed(out, game) = game)
    /\ [][Created =>
            \A i \in 1..Len(Doc.history) :
                (i <= Len(DocNext.history) /\ DocNext.history[i] # Doc.history[i]) =>
                    /\ Doc.history[i].result = "approved_set"
                    /\ DocNext.history[i].result \in {"landed", "failed"}
                    /\ last'.op \in {"judgeResp", "selfFailResp"}]_vars
\* Setter, phase and clips all allow a judgement of the response, and only
\* the missing approval entry stops it.
OnlyApprovalMissing ==
    /\ Created /\ Doc.phase = "RESP_JUDGE" /\ last.op = "submitRespClip"
    /\ ~IsNull(Doc.current.setVideoPath) /\ ~IsNull(Doc.current.responseVideoPath)
    /\ LastResult(Doc) = "declined_set"
    /\ \E uid \in Participants : \E req \in ResponseVerdicts(uid) :
            handlerImpl(req, FALSE, game) = Reject(ErrNoApproval)

JudgeCalls(uid, op) == {req \in GameplayCalls(uid) : req.op = op}

\* C26: judging without the expected clip is rejected with the game
\* unchanged: judgeSet when current.setVideoPath is absent and judgeResp
\* when current.setVideoPath or current.responseVideoPath is absent fail,
\* and with the missing-clip error when the actor and the phase are the
\* right ones.
MissingClipRejected ==
    Created =>
        \A uid \in Uids :
            /\ \A req \in JudgeCalls(uid, "judgeSet") :
                  LET out == handlerImpl(req, FALSE, game) IN
                  IsNull(Doc.current.setVideoPath) =>
                      /\ out.err # OK /\ ~out.wrote /\ committed(out, game) = game
                      /\ (SlotOf(Doc, uid) = OtherSlot(Doc.current.by)
                            /\ Doc.phase = "SET_JUDGE") => out.err = ErrNoSetClip
            /\ \A req \in JudgeCalls(uid, "judgeResp") :
                  LET out == handlerImpl(req, FALSE, game) IN
                  (IsNull(Doc.current.setVideoPath)
                        \/ IsNull(Doc.current.responseVideoPath)) =>
                      /\ out.err # OK /\ ~out.wrote /\ committed(out, game) = game
                      /\ (SlotOf(Doc, uid) = Doc.current.by
                            /\ Doc.phase = "RESP_JUDGE") => out.err = ErrMissingClips
\* The setter judges a response that was just submitted after an approved
\* set, but the set clip is absent.
JudgedWithoutSetClip ==
    /\ Created /\ Doc.phase = "RESP_JUDGE" /\ LastResult(Doc) = "approved_set"
    /\ last.op = "submitRespClip"
    /\ IsNull(Doc.current.setVideoPath) /\ ~IsNull(Doc.current.responseVideoPath)
    /\ \E uid \in Participants : \E req \in JudgeCalls(uid, "judgeResp") :
            /\ SlotOf(Doc, uid) = Doc.current.by
            /\ handlerImpl(req, FALSE, game) = Reject(ErrMissingClips)

\* C27: nextLetters maps "" to "S", "S" to "SK" and "SK" to "SK8"; its
\* completed flag is true exactly when the returned value is "SK8"; applied
\* to "SK8" it returns "SK8" with completed = true.  Checked on the letters
\* of both players in every state of a match.
NextLettersTable ==
    Created =>
        \A k \in PlayerKeys :
            LET current == LettersAt(Doc, k)
                next == nextLetters(current)
            IN  /\ current = ""    => next.value = "S"
                /\ current = "S"   => next.value = "SK"
                /\ current = "SK"  => next.value = "SK8"
                /\ current = "SK8" => next = [value |-> "SK8", completed |-> TRUE]
                /\ next.completed <=> next.value = "SK8"
\* Both players hold the full word and a further failed response has just
\* applied the function to "SK8".
FullWordFailedAgain ==
    /\ Created /\ FailedResponse(last)
    /\ BothLetters(Doc) = {"SK8"}
    /\ Len(Doc.history) = 7

\* C28: the join code of every game is unique among all stored games: no
\* two game records ever carry the same code, also when two createGame
\* calls run concurrently and draw the same candidate.
CodesUnique ==
    \A i \in 1..Len(stored) : \A j \in 1..Len(stored) :
        i # j => stored[i] # stored[j]

\* C29: generateGameCode ends after at most 10 candidate draws: a draw
\* whose candidate no stored game carries ends the loop with that
\* candidate, a colliding draw continues it, and after 10 colliding draws
\* the call fails with an internal error and writes no game record.
CodeDrawsBounded ==
    /\ [](\A c \in Clients : creates[c].attempt <= 10)
    /\ [][\A c \in Clients :
            /\ (creates[c].pc = "drawing" /\ creates'[c] # creates[c]) =>
                  \/ /\ creates[c].attempt < 10
                     /\ creates'[c].attempt = creates[c].attempt + 1
                     /\ creates'[c].pc =
                            IF creates'[c].candidate \in Range(stored)
                                THEN "drawing" ELSE "writing"
                     /\ stored' = stored
                  \/ /\ creates[c].attempt = 10
                     /\ creates'[c].pc = "failed"
                     /\ codeOf(creates'[c].err) = "internal"
                     /\ stored' = stored
            /\ creates[c].pc = "failed" => creates'[c].pc \in {"failed", "idle"}
            /\ (creates[c].pc = "writing" /\ creates'[c] # creates[c]) =>
                  stored' = Append(stored, creates[c].candidate)]_vars
\* Every code is taken and a createGame has given up after its tenth draw.
AllCandidatesCollided ==
    \E c \in Clients :
        /\ creates[c].pc = "failed" /\ creates[c].attempt = 10
        /\ Range(stored) = CodeSpace

WindowOpen(k, now) ==
    ~IsNull(buckets[k].doc) /\ Val(buckets[k].doc).windowStart > now - WindowMs
BucketFull(k) == ~IsNull(buckets[k].doc) /\ Val(buckets[k].doc).count = RateMax

\* C30: the rate limiter is consulted before a call reaches the handler
\* and admits at most max requests per bucket per window: the stored count
\* of every bucket equals the number of requests admitted in its window and
\* never exceeds max, also with concurrent calls on one bucket; a call
\* that finds its bucket at max in an open window is rejected as rate
\* limited and neither reads nor writes the game; the game is only written
\* by a call every bucket has admitted.
RateLimiterBound ==
    /\ [](\A k \in BucketKeys :
            ~IsNull(buckets[k].doc) =>
                /\ Val(buckets[k].doc).count <= RateMax
                /\ Val(buckets[k].doc).count = admits[k])
    /\ [](\A ip \in Ips :
            LET ids == identifiersOf("alice", ip) IN
            (WindowOpen(ids[1], clock) /\ BucketFull(ids[1])) =>
                readBucket([IdleLimit EXCEPT !.now = clock, !.ids = ids,
                                             !.idx = 1]).pc = "limited")
    /\ [][/\ \A c \in Clients :
              (/\ (limits[c].pc # "limited" /\ limits'[c].pc = "limited") =>
                    LET k == limits'[c].ids[limits'[c].idx] IN
                    /\ WindowOpen(k, limits'[c].now) /\ BucketFull(k)
                    /\ buckets'[k] = buckets[k]
                    /\ game' = game /\ version' = version
               /\ limits[c].pc = "limited" => limits'[c].pc \in {"limited", "idle"})
           /\ (game' # game /\ Created) =>
                 \E d \in Clients :
                    limits[d].pc = "admitted" /\ limits'[d].pc = "idle"]_vars
\* A call has been rejected at a full bucket while the other call is still
\* waiting to commit its own increment of a bucket.
LimitedWhileConcurrent ==
    \E c \in Clients, d \in Clients :
        /\ c # d
        /\ limits[c].pc = "limited"
        /\ BucketFull(limits[c].ids[limits[c].idx])
        /\ limits[d].pc = "consume"
        /\ Created

-----------------------------------------------------------------------------
\* The requests of all eight operations as a caller without an identity
\* sends them.
CreateRequests == {Request("createGame", uid, "", code, Null, FALSE) :
                        uid \in Callers, code \in CodeDraws}
Anonymous == {req \in HandlerRequests \cup CreateRequests : req.uid = NoAuth}
As(req, uid) == [req EXCEPT !.uid = uid]
Invoke(req, limited, store) ==
    IF req.op = "createGame" THEN createGameImpl(req, limited, store)
    ELSE handlerImpl(req, limited, store)

\* C31: every one of the eight operations called without an actor identity
\* fails with Unauthenticated whether or not the caller's rate-limit bucket
\* is exhausted (so before any bucket is consumed) and whether or not the
\* game exists (so before any game record is read), and writes nothing.
UnauthenticatedFirst ==
    /\ {req.op : req \in Anonymous} = Ops
    /\ \A req \in Anonymous, limited \in BOOLEAN, store \in {Null, game} :
          /\ Invoke(req, limited, store) = Reject(ErrUnauthenticated)
          /\ codeOf(Invoke(req, limited, store).err) = "unauthenticated"
          /\ committed(Invoke(req, limited, store), store) = store
\* An anonymous call that, sent by alice, is rate limited when her bucket is
\* exhausted and accepted when it is not.
AnonymousWhereAliceLimited ==
    /\ Created
    /\ last.op = "judgeSet"
    /\ \E req \in Anonymous :
          /\ handlerImpl(As(req, "alice"), TRUE, game) = Reject(ErrRateLimited)
          /\ handlerImpl(As(req, "alice"), FALSE, game).err = OK
          /\ handlerImpl(req, TRUE, game) = Reject(ErrUnauthenticated)

\* A clip reference scoped to the game, as the text of the contract has it.
ScopedToGame(path, kind) ==
    /\ Len(path.segs) >= 4
    /\ path.segs[1] = "games" /\ path.segs[2] = TheGame
    /\ \A i \in 1..Len(path.segs) : path.segs[i] \notin {"..", "a..b"}
    /\ path.segs[3] = kind
    /\ path.ext \in {"mp4", "mov", "webm", "MP4", "MOV", "WEBM"}
ClipKind(op) == IF op = "submitSetClip" THEN "set" ELSE "response"
ClipCalls(uid) == SetClipCalls(uid) \cup RespClipCalls(uid)
WellFormed(req) ==
    [req EXCEPT !.path = IF req.op = "submitSetClip" THEN Some(SetClipA) ELSE Some(RespClipA)]

\* C32: a clip reference is stored as current.setVideoPath or
\* current.responseVideoPath only if it is scoped to this game (under
\* games/<gameId>/, no '..', at least four segments, third segment 'set'
\* resp. 'response', extension mp4, mov or webm); a call carrying any other
\* reference is rejected with the record unchanged, and with invalid-argument
\* whenever the same call with a well-formed reference would be accepted.
ClipScoped ==
    /\ [](Created =>
            /\ ~IsNull(Doc.current.setVideoPath) =>
                    ScopedToGame(Val(Doc.current.setVideoPath), "set")
            /\ ~IsNull(Doc.current.responseVideoPath) =>
                    ScopedToGame(Val(Doc.current.responseVideoPath), "response"))
    /\ [][(Committing /\ last'.op \in {"submitSetClip", "submitRespClip"}) =>
            ScopedToGame(Val(last'.path), ClipKind(last'.op))]_vars
    /\ [](Created =>
            \A uid \in Uids : \A req \in ClipCalls(uid) :
                ~ScopedToGame(Val(req.path), ClipKind(req.op)) =>
                    LET out == handlerImpl(req, FALSE, game) IN
                    /\ out.err # OK /\ ~out.wrote /\ committed(out, game) = game
                    /\ handlerImpl(WellFormed(req), FALSE, game).err = OK =>
                            codeOf(out.err) = "invalid-argument")
\* A set clip is stored and the responder, who may record now, sends a
\* reference with a '..' segment and one under the set folder.
BadResponseReferences ==
    /\ Created /\ Doc.phase = "RESP_RECORD" /\ last.op = "judgeSet"
    /\ ScopedToGame(Val(Doc.current.setVideoPath), "set")
    /\ \E uid \in Uids : \E r1, r2 \in RespClipCalls(uid) :
            /\ handlerImpl(r1, FALSE, game).err = ErrPathSegments
            /\ handlerImpl(r2, FALSE, game).err = ErrPathRespFolder
            /\ handlerImpl(WellFormed(r1), FALSE, game).err = OK

-----------------------------------------------------------------------------
(* src/store/game.ts: the guards the client derives from each snapshot *)

initialGuards ==
    [isShooter |-> FALSE, isJudge |-> FALSE, canRecord |-> FALSE,
     canApprove |-> FALSE, canSelfFail |-> FALSE]

deriveGuardsJudgeRecords(g, role) ==
    IF IsNull(g) \/ IsNull(role) THEN initialGuards
    ELSE LET data == Val(g)
             isShooter == data.current.by = Val(role)
             isJudge == ~isShooter
         IN [isShooter |-> isShooter,
             isJudge |-> isJudge,
             canRecord |->
                \/ data.phase = "SET_RECORD" /\ isShooter /\ data.turn = Val(role)
                \/ data.phase = "RESP_RECORD" /\ isJudge,
             canApprove |->
                \/ /\ data.phase = "SET_JUDGE" /\ isJudge
                   /\ data.turn = (IF Val(role) = "A" THEN "B" ELSE "A")
                \/ data.phase = "RESP_JUDGE" /\ isShooter,
             canSelfFail |->
                \/ data.phase = "SET_RECORD" /\ isShooter
                \/ data.phase = "RESP_RECORD" /\ isJudge]
deriveGuards(g, role) ==
    IF IsNull(g) \/ IsNull(role) THEN initialGuards
    ELSE LET data == Val(g)
             isShooter == data.current.by = Val(role)
             isJudge == ~isShooter
         IN [isShooter |-> isShooter,
             isJudge |-> isJudge,
             canRecord |->
                \/ data.phase = "SET_RECORD" /\ isShooter /\ data.turn = Val(role)
                \/ data.phase = "RESP_RECORD" /\ isShooter,
             canApprove |->
                \/ /\ data.phase = "SET_JUDGE" /\ isJudge
                   /\ data.turn = (IF Val(role) = "A" THEN "B" ELSE "A")
                \/ data.phase = "RESP_JUDGE" /\ isJudge,
             canSelfFail |->
                \/ data.phase = "SET_RECORD" /\ isShooter
                \/ data.phase = "RESP_RECORD" /\ isShooter]

derivePhaseGuards(g, role) == deriveGuards(g, role)

Roles == {Null} \cup {Some(k) : k \in PlayerKeys}
NoGuards ==
    [isShooter |-> FALSE, isJudge |-> FALSE, canRecord |-> FALSE,
     canApprove |-> FALSE, canSelfFail |-> FALSE]

\* C33: derivePhaseGuards grants recording to the shooter and judging to
\* the non-shooter: for role = current.by, canRecord is true and canApprove
\* false in SET_RECORD with turn = role and in RESP_RECORD; for role other
\* than current.by, canApprove is true and canRecord false in SET_JUDGE
\* with turn the other slot and in RESP_JUDGE; without a game or without a
\* role every guard is false.
GuardsByRole ==
    /\ \A role \in Roles : derivePhaseGuards(Null, role) = NoGuards
    /\ derivePhaseGuards(game, Null) = NoGuards
    /\ Created =>
        \A k \in PlayerKeys :
            LET guards == derivePhaseGuards(game, Some(k)) IN
            /\ (k = Doc.current.by /\ Doc.phase = "SET_RECORD" /\ Doc.turn = k) =>
                    (guards.canRecord /\ ~guards.canApprove)
            /\ (k = Doc.current.by /\ Doc.phase = "RESP_RECORD") =>
                    (guards.canRecord /\ ~guards.canApprove)
            /\ (k # Doc.current.by /\ Doc.phase = "SET_JUDGE" /\ Doc.turn = OtherSlot(k)) =>
                    (guards.canApprove /\ ~guards.canRecord)
            /\ (k # Doc.current.by /\ Doc.phase = "RESP_JUDGE") =>
                    (guards.canApprove /\ ~guards.canRecord)
\* A stored record in RESP_JUDGE, reached by a response clip, whose shooter
\* is not the slot whose turn it is: the other slot may approve.
JudgeMayApprove ==
    /\ Created /\ last.op = "submitRespClip" /\ Doc.phase = "RESP_JUDGE"
    /\ Doc.turn # Doc.current.by
    /\ derivePhaseGuards(game, Some(Doc.turn)).canApprove
    /\ ~derivePhaseGuards(game, Some(Doc.turn)).canRecord

-----------------------------------------------------------------------------
HasSet(data) == ~IsNull(data.current.setVideoPath)
HasResp(data) == ~IsNull(data.current.responseVideoPath)
SignedIn == {req \in HandlerRequests : req.uid \in Uids}

\* C34: in every state reachable through the handlers the phase determines
\* which clips are present: none in SET_RECORD, the set clip alone in
\* SET_JUDGE and RESP_RECORD, both in RESP_JUDGE; so no call is ever
\* rejected with 'No set clip to judge.' or 'Missing clips to judge.'.
ClipsByPhase ==
    Created =>
        /\ Doc.phase = "SET_RECORD" => (~HasSet(Doc) /\ ~HasResp(Doc))
        /\ Doc.phase \in {"SET_JUDGE", "RESP_RECORD"} => (HasSet(Doc) /\ ~HasResp(Doc))
        /\ Doc.phase = "RESP_JUDGE" => (HasSet(Doc) /\ HasResp(Doc))
        /\ \A req \in SignedIn :
              handlerImpl(req, FALSE, game).err \notin {ErrNoSetClip, ErrMissingClips}
\* Back in SET_RECORD after a declined set, with the clips cleared.
ClipsClearedAfterDecline ==
    /\ Created /\ last.op = "judgeSet" /\ ~last.approve
    /\ Doc.phase = "SET_RECORD"
    /\ ~HasSet(Doc) /\ ~HasResp(Doc)
    /\ Len(Doc.history) > 0
    /\ ~IsNull(Doc.history[Len(Doc.history)].setPath)

LastEntry(data) == data.history[Len(data.history)]

\* C35: in every reachable state with phase RESP_RECORD or RESP_JUDGE the
\* history is non-empty and its last entry has result approved_set, by =
\* current.by and setPath = current.setVideoPath; in every reachable state
\* with phase SET_RECORD or SET_JUDGE the last entry, if any, is not
\* approved_set; so no call is ever rejected with 'Set approval record
\* missing.'.
ApprovalOpenInRespPhases ==
    Created =>
        /\ Doc.phase \in {"RESP_RECORD", "RESP_JUDGE"} =>
              /\ Len(Doc.history) > 0
              /\ LastEntry(Doc).result = "approved_set"
              /\ LastEntry(Doc).by = Doc.current.by
              /\ LastEntry(Doc).setPath = Doc.current.setVideoPath
              /\ ~IsNull(LastEntry(Doc).setPath)
        /\ (Doc.phase \in {"SET_RECORD", "SET_JUDGE"} /\ Len(Doc.history) > 0) =>
              LastEntry(Doc).result # "approved_set"
        /\ \A req \in SignedIn : handlerImpl(req, FALSE, game).err # ErrNoApproval
\* A second round's set was approved by the slot that set the first round.
SecondRoundApproved ==
    /\ Created /\ last.op = "judgeSet" /\ last.approve
    /\ Doc.phase = "RESP_RECORD"
    /\ Len(Doc.history) = 2
    /\ Doc.history[1].result \in {"landed", "failed"}
    /\ Doc.history[1].by # Doc.current.by
    /\ LastEntry(Doc).result = "approved_set"

Appending == {"judgeSet", "selfFailSet"}

Accepted(req) == handlerImpl(req, FALSE, game).err = OK
Joined == Created /\ ~IsNull(Doc.players.B)
Waiting == Created /\ IsNull(Doc.players.B)
Creator == Doc.players.A.uid

\* C37: once both players have joined the game never deadlocks: in every
\* reachable state with players.B populated some gameplay call by one of
\* the two participants is accepted; in every reachable state with
\* players.B absent the only accepted calls are joinGame by a non-creator
\* and, while turn = A, selfFailSet by A.
NeverStuck ==
    /\ Joined => \E uid \in Participants : \E req \in GameplayCalls(uid) : Accepted(req)
    /\ Waiting =>
        /\ \A req \in SignedIn :
              Accepted(req) =>
                  \/ req.op = "joinGame" /\ req.uid # Creator
                  \/ req.op = "selfFailSet" /\ req.uid = Creator /\ Doc.turn = "A"
        /\ \A uid \in Uids \ {Creator} : Accepted(JoinRequest(uid))
        /\ Doc.turn = "A" =>
              Accepted(Request("selfFailSet", Creator, TheGame, "", Null, FALSE))
\* The creator failed the set alone: the turn is B's, nobody holds slot B,
\* and the creator's own recording is refused until somebody joins.
TurnPassedToEmptySlot ==
    /\ Waiting /\ last.op = "selfFailSet"
    /\ Doc.turn = "B"
    /\ \A req \in GameplayCalls(Creator) : ~Accepted(req)
    /\ \E uid \in Uids : Accepted(JoinRequest(uid))

Passes(uid, ops) ==
    \E req \in GameplayCalls(uid) : req.op \in ops /\ Accepted(WellFormed(req))

\* C38: on every record the server can produce the client's guards agree
\* with the server: for each participant role r, canRecord holds exactly
\* when the server lets r through the role and phase checks of
\* submitSetClip or submitRespClip, canApprove exactly when it lets r
\* through those of judgeSet or judgeResp, and canSelfFail exactly when it
\* lets r through those of selfFailSet or selfFailResp.
GuardsAgreeWithServer ==
    Joined =>
        \A uid \in Participants :
            LET guards == derivePhaseGuards(game, Some(SlotOf(Doc, uid))) IN
            /\ guards.canRecord <=> Passes(uid, {"submitSetClip", "submitRespClip"})
            /\ guards.canApprove <=> Passes(uid, {"judgeSet", "judgeResp"})
            /\ guards.canSelfFail <=> Passes(uid, {"selfFailSet", "selfFailResp"})
\* The same agreement in the SET phases alone.
GuardsAgreeInSetPhases ==
    (Joined /\ Doc.phase \in {"SET_RECORD", "SET_JUDGE"}) => GuardsAgreeWithServer

\* Invocation d carries the request that was committed last and read the
\* record that commit was applied to.
DuplicateOf(d) ==
    /\ txs[d].pc = "running"
    /\ last.op \in GameplayOps
    /\ txs[d].req = last
    /\ txs[d].readVersion + 1 = version

NoRoundWithoutOpponent ==
    Waiting =>
        /\ Doc.phase = "SET_RECORD"
        /\ ~HasSet(Doc) /\ ~HasResp(Doc)
        /\ Doc.players.A.letters = ""
        /\ IsNull(Doc.winner)
        /\ \A i \in 1..Len(Doc.history) :
              /\ Doc.history[i].result = "failed"
              /\ IsNull(Doc.history[i].setPath)
              /\ IsNull(Doc.history[i].respPath)
\* The creator failed a set before anybody joined and was refused a
\* recording.
CreatorFailedAlone ==
    /\ Waiting /\ last.op = "selfFailSet"
    /\ Len(Doc.history) = 1
    /\ Doc.history[1].by = "A"
    /\ handlerImpl(Request("submitSetClip", Creator, TheGame, "", Some(SetClipA), FALSE),
                   FALSE, game).err \in {ErrWaiting, ErrSetPhase}

====
